---------------------------- MODULE Spec2Model ----------------------------
(***************************************************************************)
(* A model of loglogbeta.go: the LogLog-Beta cardinality sketch.           *)
(*                                                                         *)
(* A uint64 is modelled at its full width as a tuple of 64 bits, most      *)
(* significant bit first: the value of a 64-bit hash is not an integer of  *)
(* the model checker.  The register array has its full length m = 16384;   *)
(* it is stored in piecewise-constant form (see Reg).                      *)
(***************************************************************************)
EXTENDS Integers, Sequences, TLC

(***************************************************************************)
(* const ( precision, m, max, maxX, version )                              *)
(***************************************************************************)
precision == 14

\* 1 << n, for n small enough that the result is an integer of the model.
RECURSIVE Pow2(_)
Pow2(n) == IF n = 0 THEN 1 ELSE 2 * Pow2(n - 1)

m == Pow2(precision)

max == 64 - precision

version == 1

(***************************************************************************)
(* uint64 arithmetic on 64-bit words (bit 1 is the most significant bit).  *)
(***************************************************************************)
WordBits == 64

MaxUint64 == [i \in 1..WordBits |-> 1]

\* x << n on a uint64: the bits shifted out at the top are lost.
Shl(x, n) == [i \in 1..WordBits |-> IF i + n <= WordBits THEN x[i + n] ELSE 0]

\* x >> n on a uint64: zeros are shifted in at the top.
Shr(x, n) == [i \in 1..WordBits |-> IF i - n >= 1 THEN x[i - n] ELSE 0]

\* x ^ y
Xor(x, y) == [i \in 1..WordBits |-> IF x[i] = y[i] THEN 0 ELSE 1]

maxX == Shr(MaxUint64, max)

\* The number of zero bits of x from bit i on, up to the first one bit.
RECURSIVE ZerosFrom(_, _)
ZerosFrom(x, i) ==
    IF i > WordBits THEN 0
    ELSE IF x[i] = 1 THEN 0
    ELSE 1 + ZerosFrom(x, i + 1)

\* bits.Clz: the number of leading zero bits of a 64-bit word, 64 for zero.
Clz(x) == ZerosFrom(x, 1)

\* The value of the first i bits of a word, and the value of a word as an
\* integer, for a word below 2^31.
RECURSIVE BitsVal(_, _)
BitsVal(x, i) == IF i = 0 THEN 0 ELSE 2 * BitsVal(x, i - 1) + x[i]

ToInt(x) == BitsVal(x, WordBits)

\* The conversion uint8(v) of a non-negative integer.
Uint8(v) == v % 256

(***************************************************************************)
(* func getPosVal(x uint64) (uint64, uint8)                                *)
(***************************************************************************)
\* The XOR with maxX is forgotten.
getPosValNoXor(x) ==
    [k |-> ToInt(Shr(x, max)), val |-> Uint8(Uint8(Clz(Shl(x, precision))) + 1)]

\* The shift that takes the index is one bit short.
getPosValShiftsOneLess(x) ==
    [k   |-> ToInt(Shr(x, max - 1)),
     val |-> Uint8(Uint8(Clz(Xor(Shl(x, precision), maxX))) + 1)]

\* The mask is the largest value of max bits, math.MaxUint64 >> precision.
getPosValMaskOfMaxBits(x) ==
    [k   |-> ToInt(Shr(x, max)),
     val |-> Uint8(Uint8(Clz(Xor(Shl(x, precision), Shr(MaxUint64, precision)))) + 1)]

getPosVal(x) ==
    [k   |-> ToInt(Shr(x, max)),
     val |-> Uint8(Uint8(Clz(Xor(Shl(x, precision), maxX))) + 1)]

(***************************************************************************)
(* func alpha(m float64) float64.  A float64 that the program only stores  *)
(* and copies is modelled by the rational it denotes, <<num, den>>:        *)
(* 0.7213 / (1 + 1.079/m) = 7213 m / (10 (1000 m + 1079)).                 *)
(***************************************************************************)
alpha(mm) ==
    CASE mm = 16 -> <<673, 1000>>
      [] mm = 32 -> <<697, 1000>>
      [] mm = 64 -> <<709, 1000>>
      [] OTHER   -> <<7213 * mm, 10 * (1000 * mm + 1079)>>

(***************************************************************************)
(* [m]uint8.  An array a of m registers is stored as the function r from   *)
(* the indices where its value changes (index 0, and every i > 0 with      *)
(* a[i] # a[i-1]) to the value there, so a[i] is the value at the last     *)
(* such index at or before i.  Every array has exactly one such form.      *)
(***************************************************************************)
RegIdx == 0..(m - 1)

\* a[i]
Reg(r, i) ==
    r[CHOOSE b \in DOMAIN r : b <= i /\ \A c \in DOMAIN r : c <= i => c <= b]

\* The stored form of the array that f describes at the indices DOMAIN f.
Canon(f) ==
    LET keep == {b \in DOMAIN f : b = 0 \/ f[b] # Reg(f, b - 1)}
    IN  [b \in keep |-> f[b]]

\* The array a after a[k] = v.
Put(r, k, v) ==
    LET at == DOMAIN r \cup {k} \cup ({k + 1} \cap RegIdx)
    IN  Canon([b \in at |-> IF b = k THEN v ELSE Reg(r, b)])

\* [m]uint8{}
ZeroRegisters == [b \in {0} |-> 0]

(***************************************************************************)
(* type LogLogBeta struct { registers [m]uint8; alpha float64 }            *)
(***************************************************************************)
\* func New() *LogLogBeta
New == [registers |-> ZeroRegisters, alpha |-> alpha(m)]

\* The register is written without the comparison.
AddHashOverwrites(llb, x) ==
    LET kv == getPosVal(x)
    IN  [llb EXCEPT !.registers = Put(llb.registers, kv.k, kv.val)]

\* The rank is added to the register, as to a counter.
AddHashAccumulates(llb, x) ==
    LET kv == getPosVal(x)
    IN  [llb EXCEPT !.registers =
            Put(llb.registers, kv.k, Uint8(Reg(llb.registers, kv.k) + kv.val))]

\* The index is off by one: the register after the one of the hash is used.
AddHashAtNextIndex(llb, x) ==
    LET kv == getPosVal(x)
        k  == (kv.k + 1) % m
    IN  IF Reg(llb.registers, k) < kv.val
        THEN [llb EXCEPT !.registers = Put(llb.registers, k, kv.val)]
        ELSE llb

\* Only an empty register is written: the first rank is kept.
AddHashKeepsFirst(llb, x) ==
    LET kv == getPosVal(x)
    IN  IF Reg(llb.registers, kv.k) = 0
        THEN [llb EXCEPT !.registers = Put(llb.registers, kv.k, kv.val)]
        ELSE llb

\* func (llb *LogLogBeta) AddHash(x uint64): the receiver after the call.
AddHash(llb, x) ==
    LET kv == getPosVal(x)
    IN  IF Reg(llb.registers, kv.k) < kv.val
        THEN [llb EXCEPT !.registers = Put(llb.registers, kv.k, kv.val)]
        ELSE llb

\* The comparison is the wrong way round: the smaller value is kept.
MergeMin(llb, other) ==
    LET at == DOMAIN llb.registers \cup DOMAIN other.registers
    IN  [llb EXCEPT !.registers =
            Canon([i \in at |->
                LET v == Reg(llb.registers, i)
                IN  IF v > Reg(other.registers, i)
                    THEN Reg(other.registers, i)
                    ELSE v])]

\* The loop stops one register early.
MergeSkipsLast(llb, other) ==
    LET at == DOMAIN llb.registers \cup DOMAIN other.registers \cup {m - 1}
    IN  [llb EXCEPT !.registers =
            Canon([i \in at |->
                LET v == Reg(llb.registers, i)
                IN  IF i < m - 1 /\ v < Reg(other.registers, i)
                    THEN Reg(other.registers, i)
                    ELSE v])]

\* The register of other is copied without the comparison.
MergeCopies(llb, other) ==
    [llb EXCEPT !.registers = other.registers]

\* The registers are added, as counters are.
MergeAdds(llb, other) ==
    LET at == DOMAIN llb.registers \cup DOMAIN other.registers
    IN  [llb EXCEPT !.registers =
            Canon([i \in at |->
                Uint8(Reg(llb.registers, i) + Reg(other.registers, i))])]

\* The alpha of other is taken along with its registers.
MergeTakesAlpha(llb, other) ==
    LET at == DOMAIN llb.registers \cup DOMAIN other.registers
    IN  [registers |->
            Canon([i \in at |->
                LET v == Reg(llb.registers, i)
                IN  IF v < Reg(other.registers, i)
                    THEN Reg(other.registers, i)
                    ELSE v]),
         alpha |-> other.alpha]

\* func (llb *LogLogBeta) Merge(other *LogLogBeta): the receiver after the
\* call.  The range clause copies llb.registers before the loop, so v is the
\* receiver's register before the call, also when other is the receiver.  The
\* loop body does the same at every index between two changes of value of
\* either array, so it is evaluated where one of them changes.
Merge(llb, other) ==
    LET at == DOMAIN llb.registers \cup DOMAIN other.registers
    IN  [llb EXCEPT !.registers =
            Canon([i \in at |->
                LET v == Reg(llb.registers, i)
                IN  IF v < Reg(other.registers, i)
                    THEN Reg(other.registers, i)
                    ELSE v])]

(***************************************************************************)
(* func regSumAndZeros(registers [m]uint8) (float64, float64).  The loop   *)
(* adds 1/2^val for every register; the sum is kept as the exact dyadic    *)
(* it denotes, the function from each value val to the number of           *)
(* registers holding it (sum = SUM cnt[val] / 2^val), and ez is the        *)
(* number of registers holding 0.                                          *)
(***************************************************************************)
\* The number of consecutive registers that hold r[b], from index b on.
RunLen(r, b) ==
    LET later == {c \in DOMAIN r : c > b}
    IN  (IF later = {} THEN m
         ELSE CHOOSE c \in later : \A d \in later : c <= d) - b

RECURSIVE SumRunLen(_, _)
SumRunLen(r, bs) ==
    IF bs = {} THEN 0
    ELSE LET b == CHOOSE c \in bs : TRUE
         IN  RunLen(r, b) + SumRunLen(r, bs \ {b})

\* The loop starts at the second register.
regSumAndZerosSkipsFirst(registers) ==
    LET vals == {registers[b] : b \in DOMAIN registers}
        cnt  == [val \in vals |->
                    SumRunLen(registers, {b \in DOMAIN registers : registers[b] = val})
                    - (IF val = registers[0] THEN 1 ELSE 0)]
    IN  [sum |-> cnt,
         ez  |-> IF 0 \in vals THEN cnt[0] ELSE 0]

regSumAndZeros(registers) ==
    LET vals == {registers[b] : b \in DOMAIN registers}
        cnt  == [val \in vals |->
                    SumRunLen(registers, {b \in DOMAIN registers : registers[b] = val})]
    IN  [sum |-> cnt,
         ez  |-> IF 0 \in vals THEN cnt[0] ELSE 0]

(***************************************************************************)
(* func beta(ez float64) float64.  The polynomial in ez and ln(ez + 1) is  *)
(* kept as the term beta(ez); at ez = 0, ln(1) = 0 and every summand is a  *)
(* product with 0, so the value is 0.                                      *)
(***************************************************************************)
beta(ez) == [ez |-> ez, zero |-> (ez = 0)]

(***************************************************************************)
(* An enclosure [lo, hi] of beta(ez), in whole units, from an enclosure of *)
(* math.Log(ez + 1) in hundredths and of every coefficient in units of     *)
(* 10^-5.  Every bound is rounded outwards to an integer, which is far     *)
(* more than the rounding of the float64 operations.                       *)
(***************************************************************************)
\* math.Log(x) for an integer x in 1..m+1, in hundredths: ln 1 = 0,
\* ln 16385 = 14 ln 2 + ln(1 + 1/16384) lies between 9.70 and 9.71, and ln
\* is increasing.
LogEnclosure(x) ==
    CASE x = 1     -> [lo |-> 0, hi |-> 0]
      [] x = m + 1 -> [lo |-> 970, hi |-> 971]
      [] OTHER     -> [lo |-> 0, hi |-> 971]

\* math.Pow(zl, i) for zl >= 0 in hundredths: an integer enclosure.
RECURSIVE PowEnclosure(_, _)
PowEnclosure(zl, i) ==
    IF i = 0 THEN [lo |-> 1, hi |-> 1]
    ELSE LET p == PowEnclosure(zl, i - 1)
         IN  [lo |-> (p.lo * zl.lo) \div 100,
              hi |-> (p.hi * zl.hi + 99) \div 100]

\* The coefficients of beta in units of 10^-5: the sign, and the magnitude
\* rounded down.  Coefficient 0 is that of ez, coefficient i that of zl^i.
betaCoefficients ==
    [i \in 0..7 |->
        CASE i = 0 -> [neg |-> TRUE,  c |-> 37039]
          [] i = 1 -> [neg |-> FALSE, c |-> 7047]
          [] i = 2 -> [neg |-> FALSE, c |-> 17393]
          [] i = 3 -> [neg |-> FALSE, c |-> 16339]
          [] i = 4 -> [neg |-> TRUE,  c |-> 9237]
          [] i = 5 -> [neg |-> FALSE, c |-> 3738]
          [] i = 6 -> [neg |-> TRUE,  c |-> 538]
          [] i = 7 -> [neg |-> FALSE, c |-> 42]]

\* An enclosure of coefficient i times a value enclosed by p, p.lo >= 0.
TermEnclosure(i, p) ==
    LET k    == betaCoefficients[i]
        down == (k.c * p.lo) \div 100000
        up   == ((k.c + 1) * p.hi + 99999) \div 100000
    IN  IF k.neg THEN [lo |-> 0 - up, hi |-> 0 - down]
        ELSE [lo |-> down, hi |-> up]

RECURSIVE SumTerms(_, _)
SumTerms(zl, i) ==
    IF i = 0 THEN [lo |-> 0, hi |-> 0]
    ELSE LET t == TermEnclosure(i, PowEnclosure(zl, i))
             r == SumTerms(zl, i - 1)
         IN  [lo |-> t.lo + r.lo, hi |-> t.hi + r.hi]

betaEnclosure(ez) ==
    LET t == TermEnclosure(0, [lo |-> ez, hi |-> ez])
        r == SumTerms(LogEnclosure(ez + 1), 7)
    IN  [lo |-> t.lo + r.lo, hi |-> t.hi + r.hi]

\* A lower bound of the denominator beta(ez) + sum of the quotient: every
\* register adds a positive amount to sum and a register at 0 adds 1.
DenominatorAtLeast(ez, sum) ==
    betaEnclosure(ez).lo + (IF 0 \in DOMAIN sum THEN sum[0] ELSE 0)

(***************************************************************************)
(* func (llb *LogLogBeta) Cardinality() uint64.  The float64 quotient      *)
(* alpha * m * (m - ez) / (beta(ez) + sum) is kept as a term, and the      *)
(* conversion uint64(...) is decided on it.                                *)
(***************************************************************************)
\* x = Odd(x) * 2^Tz(x) for x > 0.
RECURSIVE Tz(_)
Tz(x) == IF x % 2 = 1 THEN 0 ELSE 1 + Tz(x \div 2)

Odd(x) == x \div Pow2(Tz(x))

\* The largest value val with a register holding it.
MaxVal(cnt) == CHOOSE v \in DOMAIN cnt : \A w \in DOMAIN cnt : w <= v

\* SUM cnt[val] * 2^(MaxVal - val): the sum in units of 1/2^MaxVal.
RECURSIVE SumUnits(_, _)
SumUnits(cnt, vs) ==
    IF vs = {} THEN 0
    ELSE LET v == CHOOSE w \in vs : TRUE
         IN  cnt[v] * Pow2(MaxVal(cnt) - v) + SumUnits(cnt, vs \ {v})

\* The quotient for a sketch without a zero register (beta(0) = 0), as
\* (n / d) * 2^e with n and d integers.
QuotientNoZeros(q) ==
    LET M == SumUnits(q.sum, DOMAIN q.sum)
    IN  [n |-> q.alpha[1] * Odd(q.m) * Odd(q.nz),
         d |-> q.alpha[2] * Odd(M),
         e |-> Tz(q.m) + Tz(q.nz) + MaxVal(q.sum) - Tz(M)]

\* The quotient is 0: a zero numerator over a non-zero denominator.
QuotientIsZero(q) == q.alpha[1] = 0 \/ q.nz = 0

\* The quotient is at least 2^64, so that uint64 cannot represent it.  For a
\* sketch with a zero register the denominator beta(ez) + sum is at least
\* beta(ez) + ez, which is above 0.8 for every ez in 1..m, and the numerator
\* is below alpha * 2^28.
ExceedsUint64(q) ==
    /\ ~QuotientIsZero(q)
    /\ q.beta.zero
    /\ LET f == QuotientNoZeros(q)
       IN  IF f.e >= 64 THEN f.n * Pow2(f.e - 64) >= f.d
           ELSE f.n >= f.d * Pow2(64 - f.e)

\* The results of uint64(f) for a float64 f that uint64 cannot represent: the
\* conversion succeeds and its result depends on the implementation.
ImplementationDependent == {"0x8000000000000000", "0xFFFFFFFFFFFFFFFF", "0x0"}

\* The set of values Cardinality() can return.
Cardinality(llb) ==
    LET sz == regSumAndZeros(llb.registers)
        q  == [alpha |-> llb.alpha, m |-> m, nz |-> m - sz.ez,
               beta |-> beta(sz.ez), sum |-> sz.sum]
    IN  IF ExceedsUint64(q)
        THEN {[quotient |-> q, uint64 |-> u] : u \in ImplementationDependent}
        ELSE {[quotient |-> q, uint64 |-> "floor"]}

(***************************************************************************)
(* type savedLLB struct { Registers [m]uint8; Alpha float64; Version int } *)
(* and its gob stream.  The stream is a sequence of tokens: the type       *)
(* description, then one token for every field that is sent, in the order  *)
(* of the fields, then the end of the struct.  gob sends an array field    *)
(* always, with its length, and leaves out a float or an int that is zero. *)
(***************************************************************************)
savedLLB(Registers, Alpha, Version) ==
    [Registers |-> Registers, Alpha |-> Alpha, Version |-> Version]

\* var sllb savedLLB
ZeroSavedLLB == savedLLB(ZeroRegisters, <<0, 1>>, 0)

Token(field, len, regs, alph, int) ==
    [field |-> field, len |-> len, regs |-> regs, alph |-> alph, int |-> int]

TypeDef == Token("type savedLLB", 0, ZeroRegisters, <<0, 1>>, 0)
FieldRegisters(len, regs) == Token("Registers", len, regs, <<0, 1>>, 0)
FieldAlpha(a) == Token("Alpha", 0, ZeroRegisters, a, 0)
FieldVersion(v) == Token("Version", 0, ZeroRegisters, <<0, 1>>, v)
EndStruct == Token("end", 0, ZeroRegisters, <<0, 1>>, 0)

\* The place of a field in the struct.
FieldNo(field) ==
    CASE field = "Registers" -> 1
      [] field = "Alpha"     -> 2
      [] field = "Version"   -> 3
      [] OTHER               -> 0

\* enc.Encode(savedLLB{...}) into a bytes.Buffer: the bytes and the error.
gobEncode(v) ==
    [data |-> <<TypeDef, FieldRegisters(m, v.Registers)>>
              \o (IF v.Alpha[1] = 0 THEN <<>> ELSE <<FieldAlpha(v.Alpha)>>)
              \o (IF v.Version = 0 THEN <<>> ELSE <<FieldVersion(v.Version)>>)
              \o <<EndStruct>>,
     err  |-> FALSE]

\* The fields of the stream read into v, after the field number last.
RECURSIVE gobDecodeFields(_, _, _)
gobDecodeFields(v, data, last) ==
    IF data = <<>> THEN [v |-> v, err |-> TRUE]
    ELSE LET t == Head(data)
         IN  IF t.field = "end" THEN [v |-> v, err |-> FALSE]
             ELSE IF FieldNo(t.field) <= last THEN [v |-> v, err |-> TRUE]
             ELSE IF t.field = "Registers"
                  THEN IF t.len # m THEN [v |-> v, err |-> TRUE]
                       ELSE gobDecodeFields([v EXCEPT !.Registers = t.regs],
                                            Tail(data), 1)
             ELSE IF t.field = "Alpha"
                  THEN gobDecodeFields([v EXCEPT !.Alpha = t.alph], Tail(data), 2)
             ELSE gobDecodeFields([v EXCEPT !.Version = t.int], Tail(data), 3)

\* dec.Decode(&v): v after the call and the error.
gobDecode(v, data) ==
    IF data = <<>> \/ Head(data) # TypeDef THEN [v |-> v, err |-> TRUE]
    ELSE gobDecodeFields(v, Tail(data), 0)

\* Alpha is left out of the struct that is encoded.
MarshalBinaryNoAlpha(llb) ==
    gobEncode(savedLLB(llb.registers, <<0, 1>>, version))

\* func (llb *LogLogBeta) MarshalBinary() (data []byte, err error)
MarshalBinary(llb) ==
    gobEncode(savedLLB(llb.registers, llb.alpha, version))

\* The fields are assigned before the error is looked at.
UnmarshalBinaryEarly(llb, data) ==
    LET dec == gobDecode(ZeroSavedLLB, data)
    IN  [llb |-> [registers |-> dec.v.Registers, alpha |-> dec.v.Alpha],
         err |-> dec.err]

\* alpha is computed from m instead of being taken from the payload.
UnmarshalBinaryRecomputesAlpha(llb, data) ==
    LET dec == gobDecode(ZeroSavedLLB, data)
    IN  IF dec.err
        THEN [llb |-> llb, err |-> TRUE]
        ELSE [llb |-> [registers |-> dec.v.Registers, alpha |-> alpha(m)],
              err |-> FALSE]

\* A payload of another version than this program writes is refused.
UnmarshalBinaryChecksVersion(llb, data) ==
    LET dec == gobDecode(ZeroSavedLLB, data)
    IN  IF dec.err \/ dec.v.Version # version
        THEN [llb |-> llb, err |-> TRUE]
        ELSE [llb |-> [registers |-> dec.v.Registers, alpha |-> dec.v.Alpha],
              err |-> FALSE]

\* The payload is merged into the receiver instead of replacing it.
UnmarshalBinaryMerges(llb, data) ==
    LET dec == gobDecode(ZeroSavedLLB, data)
    IN  IF dec.err
        THEN [llb |-> llb, err |-> TRUE]
        ELSE [llb |-> Merge(llb, [registers |-> dec.v.Registers,
                                  alpha |-> dec.v.Alpha]),
              err |-> FALSE]

\* func (llb *LogLogBeta) UnmarshalBinary(data []byte) error: the receiver
\* after the call and the error.
UnmarshalBinary(llb, data) ==
    LET dec == gobDecode(ZeroSavedLLB, data)
    IN  IF dec.err
        THEN [llb |-> llb, err |-> TRUE]
        ELSE [llb |-> [registers |-> dec.v.Registers, alpha |-> dec.v.Alpha],
              err |-> FALSE]

(***************************************************************************)
(* Inputs.                                                                 *)
(***************************************************************************)
\* A 64-bit hash whose top precision bits are k and whose low 64 - precision
\* bits are z zeros, then (for z < max) a one, then the bit t repeated.
MkHash(k, z, t) ==
    [i \in 1..WordBits |->
        IF i <= precision THEN (k \div Pow2(precision - i)) % 2
        ELSE IF i - precision <= z THEN 0
        ELSE IF i - precision = z + 1 THEN 1
        ELSE t]

\* Hashes go to the first and the last register, with 0..MaxZeros leading
\* zeros after the index bits or with all max bits after them zero.
MaxZeros == 1

Hashes == { MkHash(0, z, 0) : z \in 0..MaxZeros } \cup { MkHash(m - 1, max, 0) }

\* The byte values given to Add, and metro.Hash64(value, 1337) for each: a
\* fixed function of the value.
Values == {"a", "b"}

seed == 1337

HashOfA == MkHash(0, 0, 1)
HashOfB == MkHash(m - 1, max, 0)

Hash64(value, sd) == IF value = "a" THEN HashOfA ELSE HashOfB

\* The hashes given to AddHash where the sketches are also serialized.
CodecHashes == { MkHash(0, 0, 0), MkHash(m - 1, max, 0) }

\* The array with every register at val.
AllRegisters(val) == [b \in {0} |-> val]

\* Payloads that another program encoded with the same struct: one of a
\* sketch of another size and a later version, and one of a sketch with all
\* registers at the largest rank, without a version.
ForeignSaved ==
    { savedLLB(Put(ZeroRegisters, 0, 1), alpha(16), 2),
      savedLLB(AllRegisters(max + 1), alpha(m), 0) }

\* The proper prefixes of a stream.
Truncations(data) == { SubSeq(data, 1, n) : n \in 0..(Len(data) - 1) }

\* Streams that do not decode: an array of another length, a field twice.
Malformed ==
    { <<TypeDef, FieldRegisters(m - 1, ZeroRegisters), EndStruct>>,
      <<TypeDef, FieldRegisters(m, Put(ZeroRegisters, 0, 7)),
        FieldAlpha(alpha(32)), FieldAlpha(alpha(32)), EndStruct>> }

(***************************************************************************)
(* The state: the sketches, the operation called last with its arguments   *)
(* and results, the sketches before that call, the bytes returned by the   *)
(* last MarshalBinary with the sketch they were made from, the position    *)
(* of the calling program, and the results that the conversion uint64(f)   *)
(* has given so far for the quotients f that uint64 cannot represent: the  *)
(* result depends on the implementation, and on one implementation it is   *)
(* a function of f.                                                        *)
(***************************************************************************)
VARIABLES sk, op, pre, buf, prog, conv

vars == <<sk, op, pre, buf, prog, conv>>

\* No conversion has been made yet.
NoConversions == <<>>

NoBytes == [data |-> <<>>, src |-> New]

Sketches == {"A", "B", "C"}

Init ==
    /\ sk = [s \in Sketches |-> New]
    /\ op = [name |-> "New"]
    /\ pre = sk
    /\ buf = NoBytes
    /\ prog = "any"
    /\ conv = NoConversions

DoAddHash(s, x) ==
    /\ sk' = [sk EXCEPT ![s] = AddHash(sk[s], x)]
    /\ op' = [name |-> "AddHash", s |-> s, x |-> x]
    /\ pre' = sk
    /\ UNCHANGED <<buf, conv>>

\* func (llb *LogLogBeta) Add(value []byte)
DoAdd(s, value) ==
    /\ LET x == Hash64(value, seed)
       IN  sk' = [sk EXCEPT ![s] = AddHash(sk[s], x)]
    /\ op' = [name |-> "Add", s |-> s, value |-> value]
    /\ pre' = sk
    /\ UNCHANGED <<buf, conv>>

DoMerge(s, o) ==
    /\ sk' = [sk EXCEPT ![s] = Merge(sk[s], sk[o])]
    /\ op' = [name |-> "Merge", s |-> s, o |-> o]
    /\ pre' = sk
    /\ UNCHANGED <<buf, conv>>

\* The estimate is followed by a reset of the sketch.
DoCardinalityResets(s) ==
    /\ \E c \in Cardinality(sk[s]) :
          /\ c.quotient \in DOMAIN conv => c.uint64 = conv[c.quotient]
          /\ op' = [name |-> "Cardinality", s |-> s, ret |-> c,
                    before |-> IF op.name = "Cardinality"
                               THEN <<[s |-> op.s, ret |-> op.ret]>> ELSE <<>>]
          /\ conv' = IF c.uint64 = "floor" THEN conv
                     ELSE (c.quotient :> c.uint64) @@ conv
    /\ pre' = sk
    /\ sk' = [sk EXCEPT ![s] = New]
    /\ UNCHANGED buf

\* Cardinality() on sketch s.  A quotient that uint64 cannot represent is
\* converted as it was the last time, if there was one.  The call records
\* in before the receiver and the result of the call made just before it,
\* when that was a Cardinality() too.
DoCardinality(s) ==
    /\ \E c \in Cardinality(sk[s]) :
          /\ c.quotient \in DOMAIN conv => c.uint64 = conv[c.quotient]
          /\ op' = [name |-> "Cardinality", s |-> s, ret |-> c,
                    before |-> IF op.name = "Cardinality"
                               THEN <<[s |-> op.s, ret |-> op.ret]>> ELSE <<>>]
          /\ conv' = IF c.uint64 = "floor" THEN conv
                     ELSE (c.quotient :> c.uint64) @@ conv
    /\ pre' = sk
    /\ UNCHANGED <<sk, buf>>

DoMarshalBinary(s) ==
    /\ LET r == MarshalBinary(sk[s])
       IN  /\ op' = [name |-> "MarshalBinary", s |-> s, err |-> r.err]
           /\ buf' = [data |-> r.data, src |-> sk[s]]
    /\ pre' = sk
    /\ UNCHANGED <<sk, conv>>

DoUnmarshalBinary(s, data) ==
    /\ LET r == UnmarshalBinary(sk[s], data)
       IN  /\ sk' = [sk EXCEPT ![s] = r.llb]
           /\ op' = [name |-> "UnmarshalBinary", s |-> s, data |-> data,
                     err |-> r.err]
    /\ pre' = sk
    /\ UNCHANGED <<buf, conv>>

(***************************************************************************)
(* Spec: three sketches that ingest, merge and estimate.                   *)
(***************************************************************************)
Next ==
    \/ \E s \in Sketches, x \in Hashes : DoAddHash(s, x) /\ UNCHANGED prog
    \/ \E s \in Sketches, value \in Values : DoAdd(s, value) /\ UNCHANGED prog
    \/ \E s \in Sketches, o \in Sketches : DoMerge(s, o) /\ UNCHANGED prog
    \/ \E s \in Sketches : DoCardinality(s) /\ UNCHANGED prog

Spec == Init /\ [][Next]_vars

(***************************************************************************)
(* SpecCodec: two sketches that ingest, merge and are serialized and       *)
(* loaded.  The estimate, which writes nothing, is taken in Spec and in    *)
(* SpecSat.                                                                *)
(***************************************************************************)
CodecSketches == {"A", "B"}

InitCodec ==
    /\ sk = [s \in CodecSketches |-> New]
    /\ op = [name |-> "New"]
    /\ pre = sk
    /\ buf = NoBytes
    /\ prog = "any"
    /\ conv = NoConversions

\* The byte strings a caller passes to UnmarshalBinary.
DataInputs ==
    {buf.data} \cup Truncations(buf.data)
    \cup { gobEncode(v).data : v \in ForeignSaved }
    \cup Malformed

NextCodec ==
    \/ \E s \in CodecSketches, x \in CodecHashes : DoAddHash(s, x) /\ UNCHANGED prog
    \/ \E s \in CodecSketches, value \in Values : DoAdd(s, value) /\ UNCHANGED prog
    \/ \E s \in CodecSketches, o \in CodecSketches : DoMerge(s, o) /\ UNCHANGED prog
    \/ \E s \in CodecSketches : DoMarshalBinary(s) /\ UNCHANGED prog
    \/ \E s \in CodecSketches, data \in DataInputs :
          DoUnmarshalBinary(s, data) /\ UNCHANGED prog

SpecCodec == InitCodec /\ [][NextCodec]_vars

(***************************************************************************)
(* SpecRound: two sketches that ingest, merge, are serialized, and load    *)
(* only bytes that MarshalBinary returned for one of them.                 *)
(***************************************************************************)
\* The hashes given to AddHash: ranks 1, 50 and 51 at three indices.
RoundHashes == CodecHashes \cup { MkHash(1, max - 1, 0) }

NextRound ==
    \/ \E s \in CodecSketches, x \in RoundHashes : DoAddHash(s, x) /\ UNCHANGED prog
    \/ \E s \in CodecSketches, value \in Values : DoAdd(s, value) /\ UNCHANGED prog
    \/ \E s \in CodecSketches, o \in CodecSketches : DoMerge(s, o) /\ UNCHANGED prog
    \/ \E s \in CodecSketches : DoMarshalBinary(s) /\ UNCHANGED prog
    \/ \E s \in CodecSketches :
          buf.data # <<>> /\ DoUnmarshalBinary(s, buf.data) /\ UNCHANGED prog

SpecRound == InitCodec /\ [][NextRound]_vars

(***************************************************************************)
(* SpecSplit: getPosVal applied to a hash, for every number of leading     *)
(* zeros of the low max bits, three indices and two fillings of the rest,  *)
(* and then AddHash of that hash.                                          *)
(***************************************************************************)
SplitInputs ==
    { MkHash(k, z, t) : k \in {0, 1, m - 1}, z \in 0..max, t \in {0, 1} }

InitSplit ==
    /\ sk = [s \in {"A"} |-> New]
    /\ \E x \in SplitInputs : op = [name |-> "input", x |-> x]
    /\ pre = sk
    /\ buf = NoBytes
    /\ prog = "split"
    /\ conv = NoConversions

CallGetPosVal ==
    /\ op.name = "input"
    /\ op' = [name |-> "getPosVal", x |-> op.x, ret |-> getPosVal(op.x)]
    /\ UNCHANGED <<sk, pre, buf, prog, conv>>

\* AddHash of the same hash on the fresh sketch.
CallAddHash ==
    /\ op.name = "getPosVal"
    /\ DoAddHash("A", op.x)
    /\ UNCHANGED prog

NextSplit == CallGetPosVal \/ CallAddHash

SpecSplit == InitSplit /\ [][NextSplit]_vars

(***************************************************************************)
(* SpecUnion: a program that feeds the hashes s1 to A, the hashes s2 to B  *)
(* and s1 followed by s2 to U, all fresh, and then merges B into A.        *)
(***************************************************************************)
MaxLen == 2

RECURSIVE SeqsOfLen(_, _)
SeqsOfLen(S, n) ==
    IF n = 0 THEN {<<>>}
    ELSE { <<x>> \o t : x \in S, t \in SeqsOfLen(S, n - 1) }

Streams == UNION { SeqsOfLen(Hashes, n) : n \in 0..MaxLen }

InitUnion ==
    /\ sk = [s \in {"A", "B", "U"} |-> New]
    /\ op = [name |-> "New"]
    /\ pre = sk
    /\ buf = NoBytes
    /\ \E s1 \in Streams, s2 \in Streams :
          prog = [s1 |-> s1, s2 |-> s2, a |-> 0, b |-> 0, u |-> 0,
                  merged |-> FALSE]
    /\ conv = NoConversions

FeedA ==
    /\ prog.a < Len(prog.s1)
    /\ DoAddHash("A", prog.s1[prog.a + 1])
    /\ prog' = [prog EXCEPT !.a = @ + 1]

FeedB ==
    /\ prog.a = Len(prog.s1)
    /\ prog.b < Len(prog.s2)
    /\ DoAddHash("B", prog.s2[prog.b + 1])
    /\ prog' = [prog EXCEPT !.b = @ + 1]

FeedU ==
    /\ prog.a = Len(prog.s1)
    /\ prog.b = Len(prog.s2)
    /\ prog.u < Len(prog.s1 \o prog.s2)
    /\ DoAddHash("U", (prog.s1 \o prog.s2)[prog.u + 1])
    /\ prog' = [prog EXCEPT !.u = @ + 1]

MergeBIntoA ==
    /\ prog.a = Len(prog.s1)
    /\ prog.b = Len(prog.s2)
    /\ prog.u = Len(prog.s1 \o prog.s2)
    /\ ~prog.merged
    /\ DoMerge("A", "B")
    /\ prog' = [prog EXCEPT !.merged = TRUE]

NextUnion == FeedA \/ FeedB \/ FeedU \/ MergeBIntoA

SpecUnion == InitUnion /\ [][NextUnion]_vars

(***************************************************************************)
(* SpecOrder: a program that makes the calls of the sequence items on the  *)
(* fresh sketch A and then those of the sequence other on the fresh sketch *)
(* B.  A call is AddHash(x) or Add(value); the two sequences ingest the    *)
(* same set of hashes, in any order and with any repetitions.              *)
(***************************************************************************)
\* A call: for Add, x is the hash that the call computes from value.
Calls ==
    { [call |-> "AddHash", value |-> "", x |-> x] : x \in Hashes }
    \cup { [call |-> "Add", value |-> v, x |-> Hash64(v, seed)] : v \in Values }

\* The hashes that the first n calls of a sequence ingest.
HashesOf(calls, n) == { calls[j].x : j \in 1..n }

InitOrder ==
    /\ sk = [s \in {"A", "B"} |-> New]
    /\ op = [name |-> "New"]
    /\ pre = sk
    /\ buf = NoBytes
    /\ conv = NoConversions
    /\ \E items \in UNION { SeqsOfLen(Calls, n) : n \in 0..MaxLen } :
       \E other \in UNION { SeqsOfLen(Calls, n) : n \in 0..(MaxLen + 1) } :
          /\ HashesOf(items, Len(items)) = HashesOf(other, Len(other))
          /\ prog = [items |-> items, other |-> other, a |-> 0, b |-> 0]

\* The call c on sketch s.
Ingest(s, c) ==
    IF c.call = "Add" THEN DoAdd(s, c.value) ELSE DoAddHash(s, c.x)

IngestA ==
    /\ prog.a < Len(prog.items)
    /\ Ingest("A", prog.items[prog.a + 1])
    /\ prog' = [prog EXCEPT !.a = @ + 1]

IngestB ==
    /\ prog.a = Len(prog.items)
    /\ prog.b < Len(prog.other)
    /\ Ingest("B", prog.other[prog.b + 1])
    /\ prog' = [prog EXCEPT !.b = @ + 1]

NextOrder == IngestA \/ IngestB

SpecOrder == InitOrder /\ [][NextOrder]_vars

(***************************************************************************)
(* SpecSat: a program that calls AddHash(k << 50) on a fresh sketch for    *)
(* k = 0, 1, ..., m - 1 and may ask for the estimate after every call.     *)
(***************************************************************************)
InitSat ==
    /\ sk = [s \in {"A"} |-> New]
    /\ op = [name |-> "New"]
    /\ pre = sk
    /\ buf = NoBytes
    /\ prog = [k |-> 0]
    /\ conv = NoConversions

SatAddHash ==
    /\ prog.k < m
    /\ DoAddHash("A", MkHash(prog.k, max, 0))
    /\ prog' = [k |-> prog.k + 1]

SatCardinality ==
    /\ DoCardinality("A")
    /\ UNCHANGED prog

NextSat == SatAddHash \/ SatCardinality

SpecSat == InitSat /\ [][NextSat]_vars

(***************************************************************************)
(* Properties.  A property of the registers at every index is stated at    *)
(* the indices where one of the arrays it reads changes value: every array *)
(* is constant from one of its changes to the next, so the property holds  *)
(* at every index of RegIdx if and only if it holds at these.              *)
(***************************************************************************)
Points(rs) == UNION { DOMAIN r : r \in rs }

SameRegisters(a, b) == \A i \in Points({a, b}) : Reg(a, i) = Reg(b, i)

Max2(a, b) == IF a >= b THEN a ELSE b

\* C1: across Add, AddHash and Merge calls no register of any sketch ever
\* decreases: at every index the register after the call is at least the
\* register before it.
RegistersNeverDecrease ==
    op.name \in {"Add", "AddHash", "Merge"} =>
        \A s \in DOMAIN sk :
            \A i \in Points({sk[s].registers, pre[s].registers}) :
                Reg(sk[s].registers, i) >= Reg(pre[s].registers, i)

\* C1 witness: AddHash was called with a hash whose rank is below the value
\* its register already held.
LowerRankAdded ==
    /\ op.name = "AddHash"
    /\ getPosVal(op.x).val < Reg(pre[op.s].registers, getPosVal(op.x).k)

\* C2: after llb.Merge(other) every register of the receiver is the larger of
\* its value before the call and the register of other at the same index.
MergeIsRegisterwiseMax ==
    op.name = "Merge" =>
        \A i \in Points({sk[op.s].registers, pre[op.s].registers,
                         pre[op.o].registers}) :
            Reg(sk[op.s].registers, i) =
                Max2(Reg(pre[op.s].registers, i), Reg(pre[op.o].registers, i))

\* C2 witness: a Merge where the receiver held the larger value at one index
\* and other held the larger value at another.
MergeTookFromBoth ==
    /\ op.name = "Merge"
    /\ op.s # op.o
    /\ \E i \in Points({pre[op.s].registers, pre[op.o].registers}) :
          Reg(pre[op.s].registers, i) > Reg(pre[op.o].registers, i)
    /\ \E j \in Points({pre[op.s].registers, pre[op.o].registers}) :
          Reg(pre[op.s].registers, j) < Reg(pre[op.o].registers, j)

\* C3: a fresh sketch that ingested s1 and was merged with a fresh sketch that
\* ingested s2 has the registers, and so the estimate, of a fresh sketch that
\* ingested s1 followed by s2.
MergeIsUnionOfStreams ==
    (prog.merged /\ op.name = "Merge") =>
        /\ SameRegisters(sk["A"].registers, sk["U"].registers)
        /\ Cardinality(sk["A"]) = Cardinality(sk["U"])

\* C3 witness: the merge is done, both streams had two hashes, and the merged
\* sketch differs from what either sketch held alone.
UnionOfTwoStreamsMerged ==
    /\ prog.merged
    /\ op.name = "Merge"
    /\ Len(prog.s1) = 2
    /\ Len(prog.s2) = 2
    /\ ~SameRegisters(sk["A"].registers, pre["A"].registers)
    /\ ~SameRegisters(sk["A"].registers, sk["B"].registers)

\* C4: MarshalBinary succeeds, and UnmarshalBinary of the bytes it returned,
\* into any sketch, succeeds and leaves that sketch with the registers, at
\* every index, and the alpha of the sketch that was serialized.
RoundTrip ==
    /\ op.name = "MarshalBinary" => ~op.err
    /\ (op.name = "UnmarshalBinary" /\ buf.data # <<>> /\ op.data = buf.data) =>
          /\ ~op.err
          /\ SameRegisters(sk[op.s].registers, buf.src.registers)
          /\ sk[op.s].alpha = buf.src.alpha

\* C4 witness: the bytes of a partially filled sketch, with one register at
\* the largest rank, were loaded into a sketch that held other registers.
RoundTripIntoOtherSketch ==
    /\ op.name = "UnmarshalBinary"
    /\ buf.data # <<>>
    /\ op.data = buf.data
    /\ Reg(buf.src.registers, 0) = 0
    /\ Reg(buf.src.registers, m - 1) = max + 1
    /\ ~SameRegisters(pre[op.s].registers, buf.src.registers)

\* The sketch t after the sketches named in names are merged into it, in the
\* order of names.
RECURSIVE MergeAll(_, _)
MergeAll(t, names) ==
    IF names = <<>> THEN t
    ELSE MergeAll(Merge(t, sk[Head(names)]), Tail(names))

\* The orders in which the elements of S can be listed.
RECURSIVE Orders(_)
Orders(S) ==
    IF S = {} THEN {<<>>}
    ELSE UNION { { <<x>> \o t : t \in Orders(S \ {x}) } : x \in S }

\* C5: the registers of A after A.Merge(B) are those of B after B.Merge(A),
\* and merging the three sketches into one gives the same registers in every
\* order.
MergeCommutes ==
    /\ op.name = "Merge" =>
          SameRegisters(sk[op.s].registers,
                        Merge(pre[op.o], pre[op.s]).registers)
    /\ LET first == CHOOSE p \in Orders(DOMAIN sk) : TRUE
       IN  \A q \in Orders(DOMAIN sk) :
              SameRegisters(MergeAll(New, q).registers,
                            MergeAll(New, first).registers)

\* C5 witness: a Merge of two sketches with different registers, neither
\* empty, while the three sketches all differ.
MergedDifferentSketches ==
    /\ op.name = "Merge"
    /\ op.s # op.o
    /\ ~SameRegisters(pre[op.s].registers, pre[op.o].registers)
    /\ \A s \in DOMAIN sk : ~SameRegisters(pre[s].registers, ZeroRegisters)
    /\ \A s \in DOMAIN sk : \A t \in DOMAIN sk \ {s} :
          ~SameRegisters(sk[s].registers, sk[t].registers)

\* C6: A.Merge(A) leaves every register of A unchanged, and after A.Merge(B)
\* a second A.Merge(B) changes no register of A.
MergeIdempotent ==
    op.name = "Merge" =>
        /\ op.s = op.o => SameRegisters(sk[op.s].registers, pre[op.s].registers)
        /\ SameRegisters(Merge(sk[op.s], sk[op.o]).registers, sk[op.s].registers)

\* C6 witness: a sketch with two different non-zero registers was merged with
\* itself.
MergedWithItself ==
    /\ op.name = "Merge"
    /\ op.s = op.o
    /\ Reg(pre[op.s].registers, 0) > 0
    /\ Reg(pre[op.s].registers, m - 1) > Reg(pre[op.s].registers, 0)

\* The low max bits of a hash, as a string of max bits.
LowBits(x) == [i \in 1..max |-> x[precision + i]]

\* The number of leading zero bits of a string of bits.
LeadingZeros(bs) ==
    IF \A i \in DOMAIN bs : bs[i] = 0 THEN Len(bs)
    ELSE (CHOOSE i \in DOMAIN bs :
              bs[i] = 1 /\ \A j \in 1..(i - 1) : bs[j] = 0) - 1

\* C7: the rank getPosVal returns is 1 plus the number of leading zero bits of
\* the low 50 bits of the hash, 51 when they are all zero, and so it lies
\* in 1..51 and is not wrapped by the conversion to uint8.
RankIsLeadingZerosPlusOne ==
    op.name = "getPosVal" =>
        /\ op.ret.val = 1 + LeadingZeros(LowBits(op.x))
        /\ (\A i \in 1..50 : op.x[14 + i] = 0) => op.ret.val = 51
        /\ op.ret.val \in 1..51

\* C7 witness: getPosVal was applied to a hash whose low 50 bits are zero.
RankOfZeroSuffix ==
    /\ op.name = "getPosVal"
    /\ \A i \in 1..50 : op.x[14 + i] = 0
    /\ op.ret.val = 51

\* Every register of the array holds val.
AllAt(registers, val) == \A b \in DOMAIN registers : registers[b] = val

\* C8: with all 16384 registers at rank 51, reached by AddHash(k << 50) for
\* every k, the quotient Cardinality() computes is finite and not NaN (its
\* denominator, beta(0) + sum = 16384 / 2^51, is not zero), is not above the
\* uint64 range, and so is converted to uint64 by truncation.
SaturatedEstimateFitsUint64 ==
    (op.name = "Cardinality" /\ prog.k = m /\ AllAt(sk["A"].registers, 51)) =>
        /\ op.ret.quotient.beta.zero
        /\ op.ret.quotient.sum = [val \in {51} |-> 16384]
        /\ ~ExceedsUint64(op.ret.quotient)
        /\ op.ret.uint64 = "floor"

\* C9: when UnmarshalBinary returns an error, the registers and the alpha of
\* the receiver are what they were before the call.
FailedUnmarshalKeepsState ==
    (op.name = "UnmarshalBinary" /\ op.err) =>
        /\ SameRegisters(sk[op.s].registers, pre[op.s].registers)
        /\ sk[op.s].alpha = pre[op.s].alpha

\* C9 witness: UnmarshalBinary failed on bytes that carry a register array and
\* an alpha other than those of the receiver, which was not empty.
FailedUnmarshalOfOtherState ==
    /\ op.name = "UnmarshalBinary"
    /\ op.err
    /\ ~SameRegisters(sk[op.s].registers, ZeroRegisters)
    /\ \E i \in 1..Len(op.data) :
          /\ op.data[i].field = "Registers"
          /\ op.data[i].len = m
          /\ ~SameRegisters(op.data[i].regs, sk[op.s].registers)
    /\ \E i \in 1..Len(op.data) :
          /\ op.data[i].field = "Alpha"
          /\ op.data[i].alph # sk[op.s].alpha

\* C10 as stated: no operation on a sketch changes its alpha.
AlphaConstantForLifetime ==
    \A s \in DOMAIN sk : sk[s].alpha = pre[s].alpha

\* The Alpha a stream carries: 0 when the field is left out.
PayloadAlpha(data) ==
    LET at == {i \in 1..Len(data) : data[i].field = "Alpha"}
    IN  IF at = {} THEN <<0, 1>> ELSE data[CHOOSE i \in at : TRUE].alph

\* C10 as amended: New sets alpha to 0.7213 / (1 + 1.079/16384); Add, AddHash,
\* Merge, Cardinality, MarshalBinary and a failed UnmarshalBinary leave the
\* alpha of every sketch unchanged; a successful UnmarshalBinary sets the
\* alpha of the receiver to the Alpha of the payload and leaves the others.
AlphaChangesOnlyOnLoad ==
    /\ op.name = "New" =>
          \A s \in DOMAIN sk :
              sk[s].alpha = <<7213 * 16384, 10 * (1000 * 16384 + 1079)>>
    /\ op.name \in {"Add", "AddHash", "Merge", "Cardinality", "MarshalBinary"} =>
          \A s \in DOMAIN sk : sk[s].alpha = pre[s].alpha
    /\ op.name = "UnmarshalBinary" =>
          /\ \A s \in DOMAIN sk \ {op.s} : sk[s].alpha = pre[s].alpha
          /\ sk[op.s].alpha =
                IF op.err THEN pre[op.s].alpha ELSE PayloadAlpha(op.data)

\* C10 witness: a successful UnmarshalBinary gave the receiver another alpha
\* than it had.
AlphaReplacedByLoad ==
    /\ op.name = "UnmarshalBinary"
    /\ ~op.err
    /\ sk[op.s].alpha # pre[op.s].alpha

\* C11: Cardinality() of a sketch with all registers zero returns 0: ez is m,
\* so the numerator alpha * m * (m - ez) is 0, and the denominator
\* beta(ez) + sum is above 0, so the quotient is 0 and not NaN, and its
\* conversion to uint64 is 0.
EmptySketchEstimateIsZero ==
    (op.name = "Cardinality" /\ AllAt(sk[op.s].registers, 0)) =>
        LET q == op.ret.quotient
        IN  /\ q.beta.ez = m
            /\ q.nz = 0
            /\ q.sum = [val \in {0} |-> m]
            /\ DenominatorAtLeast(q.beta.ez, q.sum) > 0
            /\ QuotientIsZero(q)
            /\ op.ret.uint64 = "floor"

\* C11 witness: the estimate of a sketch fresh from New() was taken while
\* another sketch was not empty.
EstimatedFreshSketch ==
    /\ op.name = "Cardinality"
    /\ sk[op.s] = New
    /\ \E t \in DOMAIN sk : ~AllAt(sk[t].registers, 0)

\* C12: the index getPosVal returns for a hash is the value of its top 14
\* bits and lies in 0..16383, and AddHash of the hash writes no register
\* outside the array of 16384 registers.
IndexIsTopBitsInRange ==
    /\ op.name = "getPosVal" =>
          /\ op.ret.k = BitsVal(op.x, 14)
          /\ op.ret.k \in 0..16383
    /\ op.name = "AddHash" =>
          \A s \in DOMAIN sk : DOMAIN sk[s].registers \subseteq 0..16383

\* C12 witness: AddHash of a hash whose top 14 bits are all ones wrote the
\* last register.
AddHashAtLastIndex ==
    /\ op.name = "AddHash"
    /\ \A i \in 1..14 : op.x[i] = 1
    /\ Reg(sk[op.s].registers, 16383) > Reg(pre[op.s].registers, 16383)

\* The 64-bit word of value 2^n - 1: the largest value representable in n
\* bits.
MaskOfBits(n) == [i \in 1..64 |-> IF i > 64 - n THEN 1 ELSE 0]

\* C13 as stated: the rank is 1 + clz64((h << 14) XOR M) with M = 2^50 - 1,
\* the largest value representable in 64 - precision = 50 bits.
RankUsesMaskOfFiftyBits ==
    op.name = "getPosVal" =>
        op.ret.val = 1 + Clz(Xor(Shl(op.x, 14), MaskOfBits(50)))

\* C13 as amended: the rank is 1 + clz64((h << 14) XOR M) with
\* M = MaxUint64 >> 50 = 2^14 - 1, the largest value representable in
\* precision = 14 bits: the 14 bits that the shift left vacant are set.
RankUsesMaskOfPrecisionBits ==
    /\ maxX = MaskOfBits(14)
    /\ op.name = "getPosVal" =>
          op.ret.val = 1 + Clz(Xor(Shl(op.x, 14), MaskOfBits(14)))

\* C13 witness: getPosVal was applied to a hash for which the two masks give
\* different ranks, as for one whose low 50 bits are zero (51 and 15).
MasksGiveDifferentRanks ==
    /\ op.name = "getPosVal"
    /\ Clz(Xor(Shl(op.x, 14), MaskOfBits(14))) = 50
    /\ Clz(Xor(Shl(op.x, 14), MaskOfBits(50))) = 14

\* C14: Cardinality() changes no register and no alpha of any sketch, and a
\* Cardinality() call that directly follows one on the same sketch returns
\* the value the first returned.
CardinalityIsReadOnly ==
    op.name = "Cardinality" =>
        /\ \A s \in DOMAIN sk :
              /\ SameRegisters(sk[s].registers, pre[s].registers)
              /\ sk[s].alpha = pre[s].alpha
        /\ \A b \in 1..Len(op.before) :
              op.before[b].s = op.s => op.before[b].ret = op.ret

\* C14 witness: Cardinality() was called twice in a row on a sketch whose
\* quotient uint64 cannot represent.
EstimatedTwiceInARow ==
    /\ op.name = "Cardinality"
    /\ op.before # <<>>
    /\ op.before[1].s = op.s
    /\ op.ret.uint64 # "floor"

\* C15: in every state reached from New() by Add, AddHash, Merge and round
\* trips through MarshalBinary and UnmarshalBinary, the register array of
\* every sketch has exactly 16384 entries, at the indices 0..16383, and every
\* register is in 0..51.
RegistersInRange ==
    \A s \in DOMAIN sk :
        LET r == sk[s].registers
        IN  /\ 0 \in DOMAIN r
            /\ DOMAIN r \subseteq 0..16383
            /\ SumRunLen(r, DOMAIN r) = 16384
            /\ \A b \in DOMAIN r : r[b] \in 0..51

\* C15 witness: a sketch that holds the largest rank in one register and
\* smaller values in others came out of a round trip.
LoadedLargestRank ==
    /\ op.name = "UnmarshalBinary"
    /\ ~op.err
    /\ Reg(sk[op.s].registers, 16383) = 51
    /\ Reg(sk[op.s].registers, 0) = 1
    /\ Reg(sk[op.s].registers, 1) = 50
    /\ Reg(sk[op.s].registers, 2) = 0

\* C16: AddHash(h) sets the register at the index of h to the larger of its
\* value before the call and the rank of h, and leaves every other register
\* of the receiver, its alpha, and every other sketch unchanged.  The other
\* registers are compared where an array changes value and just after the
\* index.
AddHashTouchesOneRegister ==
    op.name = "AddHash" =>
        LET kv    == getPosVal(op.x)
            after == sk[op.s].registers
            was   == pre[op.s].registers
        IN  /\ Reg(after, kv.k) = Max2(Reg(was, kv.k), kv.val)
            /\ \A i \in (Points({after, was}) \cup ({kv.k + 1} \cap RegIdx)) \ {kv.k} :
                  Reg(after, i) = Reg(was, i)
            /\ sk[op.s].alpha = pre[op.s].alpha
            /\ \A t \in DOMAIN sk \ {op.s} : sk[t] = pre[t]

\* C16 witness: AddHash raised a register that was not zero, in a sketch
\* with another non-zero register, next to a non-empty sketch.
AddHashRaisedOneRegister ==
    /\ op.name = "AddHash"
    /\ Reg(pre[op.s].registers, getPosVal(op.x).k) > 0
    /\ Reg(sk[op.s].registers, getPosVal(op.x).k) >
          Reg(pre[op.s].registers, getPosVal(op.x).k)
    /\ \E i \in DOMAIN pre[op.s].registers :
          i # getPosVal(op.x).k /\ pre[op.s].registers[i] > 0
    /\ \E t \in DOMAIN sk \ {op.s} : ~AllAt(sk[t].registers, 0)

\* The Version a stream carries: 0 when the field is left out.
PayloadVersion(data) ==
    LET at == {i \in 1..Len(data) : data[i].field = "Version"}
    IN  IF at = {} THEN 0 ELSE data[CHOOSE i \in at : TRUE].int

\* The register array a stream carries.
PayloadRegisters(data) ==
    LET at == {i \in 1..Len(data) : data[i].field = "Registers"}
    IN  IF at = {} THEN ZeroRegisters ELSE data[CHOOSE i \in at : TRUE].regs

\* The stream is what the encoder writes for a savedLLB value: that of the
\* fields it carries.
StructurallyValid(data) ==
    data = gobEncode(savedLLB(PayloadRegisters(data), PayloadAlpha(data),
                              PayloadVersion(data))).data

\* C17: UnmarshalBinary of a structurally valid payload returns no error and
\* gives the receiver the registers and the alpha of the payload, whatever
\* the Version of the payload is: 0, 1 or another integer.
AnyVersionIsAccepted ==
    (op.name = "UnmarshalBinary" /\ StructurallyValid(op.data)) =>
        /\ ~op.err
        /\ SameRegisters(sk[op.s].registers, PayloadRegisters(op.data))
        /\ sk[op.s].alpha = PayloadAlpha(op.data)

\* C17 witness: a payload of a version that this program does not write was
\* loaded into a sketch that held other registers.
LoadedOtherVersion ==
    /\ op.name = "UnmarshalBinary"
    /\ StructurallyValid(op.data)
    /\ PayloadVersion(op.data) \notin {0, 1}
    /\ ~SameRegisters(pre[op.s].registers, PayloadRegisters(op.data))

\* C18: two fresh sketches that ingested the same set of hashes, in any order
\* and with any repetitions, by AddHash or by Add, have the same registers;
\* and a call that ingests a hash the sketch has ingested before leaves every
\* register unchanged.
IngestionDependsOnSetOnly ==
    /\ (prog.a = Len(prog.items) /\ prog.b = Len(prog.other)) =>
          SameRegisters(sk["A"].registers, sk["B"].registers)
    /\ (op.name \in {"AddHash", "Add"} /\ op.s = "A"
            /\ prog.items[prog.a].x \in HashesOf(prog.items, prog.a - 1)) =>
          SameRegisters(sk["A"].registers, pre["A"].registers)
    /\ (op.name \in {"AddHash", "Add"} /\ op.s = "B"
            /\ prog.other[prog.b].x \in HashesOf(prog.other, prog.b - 1)) =>
          SameRegisters(sk["B"].registers, pre["B"].registers)

\* C18 witness: A ingested two hashes of different ranks for one register,
\* and B ingested them in the other order and then the first of them again.
IngestedPermutedAndRepeated ==
    /\ prog.a = Len(prog.items)
    /\ prog.b = Len(prog.other)
    /\ Len(prog.items) = 2
    /\ Len(prog.other) = 3
    /\ getPosVal(prog.items[1].x).k = getPosVal(prog.items[2].x).k
    /\ getPosVal(prog.items[1].x).val < getPosVal(prog.items[2].x).val
    /\ prog.other[1] = prog.items[2]
    /\ prog.other[2] = prog.items[1]
    /\ prog.other[3] = prog.items[2]

\* C19: after a successful UnmarshalBinary the registers and the alpha of the
\* receiver are exactly those of the payload, whatever the receiver held
\* before, and the other sketches are as they were.
UnmarshalReplacesState ==
    (op.name = "UnmarshalBinary" /\ ~op.err) =>
        /\ \A i \in Points({sk[op.s].registers, PayloadRegisters(op.data)}) :
              Reg(sk[op.s].registers, i) = Reg(PayloadRegisters(op.data), i)
        /\ sk[op.s].alpha = PayloadAlpha(op.data)
        /\ \A t \in DOMAIN sk \ {op.s} : sk[t] = pre[t]

\* C19 witness: a successful UnmarshalBinary made a register of a non-empty
\* receiver smaller than it was.
LoadLoweredRegister ==
    /\ op.name = "UnmarshalBinary"
    /\ ~op.err
    /\ \E i \in DOMAIN pre[op.s].registers :
          Reg(sk[op.s].registers, i) < Reg(pre[op.s].registers, i)

\* C20: llb.Merge(other) with other another sketch than llb leaves the
\* registers and the alpha of other, and the alpha of llb, as they were, also
\* when the two alphas differ.
MergeWritesReceiverRegistersOnly ==
    (op.name = "Merge" /\ op.s # op.o) =>
        /\ SameRegisters(sk[op.o].registers, pre[op.o].registers)
        /\ sk[op.o].alpha = pre[op.o].alpha
        /\ sk[op.s].alpha = pre[op.s].alpha
        /\ \A t \in DOMAIN sk \ {op.s} : sk[t] = pre[t]

\* C20 witness: a Merge changed registers of the receiver while other had
\* another alpha than the receiver.
MergedSketchOfOtherAlpha ==
    /\ op.name = "Merge"
    /\ op.s # op.o
    /\ pre[op.s].alpha # pre[op.o].alpha
    /\ ~SameRegisters(sk[op.s].registers, pre[op.s].registers)

=============================================================================
